---- MODULE Spec2Model ----
(***************************************************************************)
(* TCP segment codec of port-scanner: the checksum engine, the TcpPacket   *)
(* constructor, to_bytes, from_bytes and __eq__, over a small object heap  *)
(* (packets refer to their flags, options and payload objects by id).      *)
(***************************************************************************)
EXTENDS Integers, Sequences, FiniteSets, TLC

VARIABLES
    packets,    \* the TcpPacket objects built so far, in creation order
    flagsObj,   \* the TcpControlBits objects: id -> packed integer
    optsObj,    \* the TcpOptions objects: id -> ordered option list
    bufObj,     \* the payload buffers: id -> [mutable, data]
    ret         \* the last call: its name, its arguments and what it returned or raised

vars == <<packets, flagsObj, optsObj, bufObj, ret>>

-----------------------------------------------------------------------------
(* Results of calls: a returned value or a raised exception.               *)

Ok(v) == [ok |-> TRUE, val |-> v]

Raise(e) == [ok |-> FALSE, err |-> e]

-----------------------------------------------------------------------------
(* Integer and byte helpers: Python's >>, <<, &, | and struct's big-endian *)
(* packing on non-negative integers.                                       *)

Pow2(n) == 2 ^ n

Shr(x, n) == x \div Pow2(n)

Shl(x, n) == x * Pow2(n)

RECURSIVE BitAnd(_, _)
BitAnd(a, b) ==
    IF a = 0 \/ b = 0 THEN 0
    ELSE (IF a % 2 = 1 /\ b % 2 = 1 THEN 1 ELSE 0) + 2 * BitAnd(a \div 2, b \div 2)

RECURSIVE BitOr(_, _)
BitOr(a, b) ==
    IF a = 0 THEN b
    ELSE IF b = 0 THEN a
    ELSE (IF a % 2 = 1 \/ b % 2 = 1 THEN 1 ELSE 0) + 2 * BitOr(a \div 2, b \div 2)

U16(x) == <<x \div 256, x % 256>>

\* A value of a 32-bit field is the pair <<high, low>> of its 16-bit halves
\* (high * 65536 + low); a high half outside 0..65535 is a value that does
\* not fit 32 bits.
W32(high, low) == <<high, low>>

U32(x) == U16(x[1]) \o U16(x[2])

RdU16(b, i) == b[i] * 256 + b[i + 1]

RdU32(b, i) == W32(RdU16(b, i), RdU16(b, i + 2))

\* Python's s[:n] and s[n:] on a sequence, negative n counting from the end.
PyIndex(s, n) == IF n < 0 THEN (IF Len(s) + n < 0 THEN 0 ELSE Len(s) + n)
                 ELSE (IF n > Len(s) THEN Len(s) ELSE n)

SliceTo(s, n) == SubSeq(s, 1, PyIndex(s, n))

SliceFrom(s, n) == SubSeq(s, PyIndex(s, n) + 1, Len(s))

-----------------------------------------------------------------------------
(* Utils (src/port_scanner/utils/utils.py)                                 *)

set_bit(num, bit_mask, value) ==
    IF value THEN BitOr(num, bit_mask) ELSE num - BitAnd(num, bit_mask)

is_bit_set(bits, bit_mask) == BitAnd(bits, bit_mask) # 0

RECURSIVE SumPairs(_, _)
SumPairs(byte_buffer, i) ==
    IF i > Len(byte_buffer) THEN 0
    ELSE (Shl(byte_buffer[i], 8) + byte_buffer[i + 1]) + SumPairs(byte_buffer, i + 2)

\* calc_checksum without line 29: the carry is dropped instead of added back.
calc_checksum_nofold(byte_buffer) ==
    IF Len(byte_buffer) % 2 = 1 THEN Raise("IndexError")
    ELSE Ok(65535 - (SumPairs(byte_buffer, 1) % 65536))

\* byte_buffer[i + 1] of the last pair of an odd-length buffer is out of range.
calc_checksum(byte_buffer) ==
    IF Len(byte_buffer) % 2 = 1 THEN Raise("IndexError")
    ELSE LET summed == SumPairs(byte_buffer, 1)
             checksum == summed + Shr(summed, 16)
         IN  Ok(65535 - (checksum % 65536))

-----------------------------------------------------------------------------
(* Collaborators whose source is not part of src/: TcpUtils,               *)
(* TransportLayerUtils, BitFlags, TcpOptions, IpPacket and Packet, as the  *)
(* specification describes them and as their callers use them.             *)

TCP_HEADER_LENGTH == 5

TCP_HEADER_LENGTH_BYTES == 20

MAX_PACKET_LENGTH == 65535

validate_port_num(port_num) ==
    IF port_num >= 0 /\ port_num <= 65535 THEN Ok(port_num) ELSE Raise("ValueError")

validate_packet_length(packet_bytes) ==
    IF Len(packet_bytes) > MAX_PACKET_LENGTH THEN Raise("ValueError") ELSE Ok(packet_bytes)

\* An IPv4 packet as the pseudo header reads it, and the other values a
\* packet's underlying_packet can hold.
IpPacket(src, dst) ==
    [kind |-> "IpPacket", source_addr_raw |-> src, dest_addr_raw |-> dst, protocol |-> 6]

OtherPacket == [kind |-> "Other", source_addr_raw |-> <<>>, dest_addr_raw |-> <<>>, protocol |-> 0]

NoPacket == [kind |-> "None", source_addr_raw |-> <<>>, dest_addr_raw |-> <<>>, protocol |-> 0]

\* TcpOptions: an option is [kind, values, raw]; values are 32-bit words,
\* raw the value bytes of an option whose length is no whole number of words.
EOL == [kind |-> 0, values |-> <<>>, raw |-> <<>>]

NOP == [kind |-> 1, values |-> <<>>, raw |-> <<>>]

TIMESTAMPS == 8

Sized(kind, values) == [kind |-> kind, values |-> values, raw |-> <<>>]

RECURSIVE WordsToBytes(_)
WordsToBytes(ws) == IF ws = <<>> THEN <<>> ELSE U32(Head(ws)) \o WordsToBytes(Tail(ws))

RECURSIVE BytesToWords(_)
BytesToWords(b) ==
    IF Len(b) < 4 THEN <<>> ELSE <<RdU32(b, 1)>> \o BytesToWords(SubSeq(b, 5, Len(b)))

OptionBytes(o) ==
    IF o.kind = 0 \/ o.kind = 1 THEN <<o.kind>>
    ELSE <<o.kind, 2 + 4 * Len(o.values) + Len(o.raw)>> \o WordsToBytes(o.values) \o o.raw

RECURSIVE RawOptionsBytes(_)
RawOptionsBytes(opts) ==
    IF opts = <<>> THEN <<>> ELSE OptionBytes(Head(opts)) \o RawOptionsBytes(Tail(opts))

RECURSIVE PadToWord(_)
PadToWord(b) == IF Len(b) % 4 = 0 THEN b ELSE PadToWord(b \o <<1>>)

TcpOptions_to_bytes(opts) == PadToWord(RawOptionsBytes(opts))

RECURSIVE DecodeOptions(_, _, _)
DecodeOptions(b, i, acc) ==
    IF i > Len(b) THEN Ok(acc)
    ELSE IF b[i] = 0 THEN Ok(Append(acc, EOL))
    ELSE IF b[i] = 1 THEN DecodeOptions(b, i + 1, Append(acc, NOP))
    ELSE IF i + 1 > Len(b) THEN Raise("ValueError")
    ELSE LET L == b[i + 1]
             value == SubSeq(b, i + 2, i + L - 1)
         IN  IF L < 2 \/ i + L - 1 > Len(b) THEN Raise("ValueError")
             ELSE DecodeOptions(b, i + L,
                      Append(acc, IF (L - 2) % 4 = 0
                                  THEN [kind |-> b[i], values |-> BytesToWords(value), raw |-> <<>>]
                                  ELSE [kind |-> b[i], values |-> <<>>, raw |-> value]))

TcpOptions_from_bytes(b) == DecodeOptions(b, 1, <<>>)

\* BitFlags.set_flag / is_flag_set on a flags object's integer.
set_flag(flags, mask, value) == set_bit(flags, mask, value)

is_flag_set(flags, mask) == is_bit_set(flags, mask)

-----------------------------------------------------------------------------
(* TcpControlBits (src/nally/core/layers/transport/tcp/tcp_control_bits.py)*)

NS == 256
CWR == 128
ECE == 64
URG == 32
ACK == 16
PSH == 8
RST == 4
SYN == 2
FIN == 1

FlagMasks == <<NS, CWR, ECE, URG, ACK, PSH, RST, SYN, FIN>>

\* __init__: starts from BitFlags' zero and calls set_flag once per mask, in order.
RECURSIVE SetFlags(_, _, _)
SetFlags(flags, values, i) ==
    IF i > Len(FlagMasks) THEN flags
    ELSE SetFlags(set_flag(flags, FlagMasks[i], values[i]), values, i + 1)

TcpControlBits(ns, cwr, ece, urg, ack, psh, rst, syn, fin) ==
    SetFlags(0, <<ns, cwr, ece, urg, ack, psh, rst, syn, fin>>, 1)

TcpControlBits_from_int(bits) ==
    TcpControlBits(is_bit_set(bits, NS), is_bit_set(bits, CWR), is_bit_set(bits, ECE),
                   is_bit_set(bits, URG), is_bit_set(bits, ACK), is_bit_set(bits, PSH),
                   is_bit_set(bits, RST), is_bit_set(bits, SYN), is_bit_set(bits, FIN))

\* The 9 read-only properties ns .. fin, in declaration order.
Accessors(flags) == [m \in DOMAIN FlagMasks |-> is_flag_set(flags, FlagMasks[m])]

FlagNames == <<"ns", "cwr", "ece", "urg", "ack", "psh", "rst", "syn", "fin">>

\* __str__: the names of the set flags in the order the code tests them; the
\* string is these names joined by single spaces.
RECURSIVE StrFrom(_, _)
StrFrom(flags, m) ==
    IF m > Len(FlagMasks) THEN <<>>
    ELSE (IF Accessors(flags)[m] THEN <<FlagNames[m]>> ELSE <<>>) \o StrFrom(flags, m + 1)

TcpControlBits_str(flags) == StrFrom(flags, 1)

\* __eq__ between two TcpControlBits objects.
TcpControlBits_eq(flags, other) == flags = other

-----------------------------------------------------------------------------
(* TcpPacket (src/port_scanner/layers/transport/tcp/tcp_packet.py).  A     *)
(* packet object holds the ids of its flags, options and payload objects;  *)
(* to_bytes and __eq__ read the packet through those ids (View).           *)

\* The objects the default arguments of __init__ were bound to when the
\* function was defined: every call that omits the argument gets the same one.
DefaultFlags == 1

DefaultOptions == 1

DefaultPayload == 1

\* The destination port taken as given.
init_dest_port_unchecked(dest_port) == Ok(dest_port)

init_dest_port(dest_port) == validate_port_num(dest_port)

TcpPacket_init(source_port, dest_port, sequence_number, ack_number, flags, win_size, urg_pointer, options, payload) ==
    LET sp == validate_port_num(source_port)
        dp == init_dest_port(dest_port)
    IN  IF ~sp.ok THEN sp
        ELSE IF ~dp.ok THEN dp
        ELSE Ok([source_port |-> sp.val, dest_port |-> dp.val,
                 sequence_number |-> sequence_number, ack_number |-> ack_number,
                 flags |-> flags, win_size |-> win_size, urg_pointer |-> urg_pointer,
                 options |-> options, payload |-> payload,
                 underlying_packet |-> NoPacket, upper_layer |-> NoPacket])

\* struct's "H" and "I" formats reject a value outside their range.
FitsH(x) == x >= 0 /\ x <= 65535

FitsI(x) == x[1] >= 0 /\ x[1] <= 65535

\* __get_pseudo_header of layers/tcp/tcp_packet.py, which the transport
\* module calls as TransportLayerUtils.get_pseudo_header.
get_pseudo_header(self, segment_len) ==
    LET ip_packet == self.underlying_packet
    IN  IF ip_packet.kind # "IpPacket" THEN Raise("ValueError")
        ELSE IF ~FitsH(segment_len) THEN Raise("struct.error")
        ELSE Ok(ip_packet.source_addr_raw \o ip_packet.dest_addr_raw
                \o <<0, ip_packet.protocol>> \o U16(segment_len))

HeaderBytes(self, data_offset_flags, checksum) ==
    U16(self.source_port) \o U16(self.dest_port) \o U32(self.sequence_number)
    \o U32(self.ack_number) \o U16(data_offset_flags) \o U16(self.win_size)
    \o U16(checksum) \o U16(self.urg_pointer)

\* The assertion with 8 in place of 4.
options_aligned_8(options_bytes) == Len(options_bytes) % 8 = 0

options_aligned(options_bytes) == Len(options_bytes) % 4 = 0

\* The checksum taken over the pseudo header, the header and the options only.
checksum_input_no_payload(pseudo_header, header_buffer, options_bytes, payload) ==
    pseudo_header \o header_buffer \o options_bytes

\* The buffer handed to calc_checksum.
checksum_input(pseudo_header, header_buffer, options_bytes, payload) ==
    pseudo_header \o header_buffer \o options_bytes \o payload

to_bytes(self) ==
    LET options_bytes == TcpOptions_to_bytes(self.options)
        data_offset == TCP_HEADER_LENGTH + Len(options_bytes) \div 4
        data_offset_flags == BitOr(Shl(data_offset, 12), self.flags)
        pseudo_header == get_pseudo_header(self, data_offset * 4 + Len(self.payload))
    IN  IF ~options_aligned(options_bytes) THEN Raise("AssertionError")
        ELSE IF ~(FitsH(self.source_port) /\ FitsH(self.dest_port)
                  /\ FitsI(self.sequence_number) /\ FitsI(self.ack_number)
                  /\ FitsH(data_offset_flags) /\ FitsH(self.win_size)
                  /\ FitsH(self.urg_pointer))
             THEN Raise("struct.error")
        ELSE IF ~pseudo_header.ok THEN pseudo_header
        ELSE LET checksum == calc_checksum(checksum_input(pseudo_header.val,
                                 HeaderBytes(self, data_offset_flags, 0),
                                 options_bytes, self.payload))
             IN  IF ~checksum.ok THEN checksum
                 ELSE validate_packet_length(
                          HeaderBytes(self, data_offset_flags, checksum.val)
                          \o options_bytes \o self.payload)

\* The reserved bits taken with mask 3: bit 11 is not looked at.
reserved_bits_mask3(data_offset_flags) == BitAnd(Shr(data_offset_flags, 9), 3)

reserved_bits(data_offset_flags) == BitAnd(Shr(data_offset_flags, 9), 7)

\* The value returned holds the flags integer, the option list and the payload
\* bytes themselves; the caller's action gives them object ids.
from_bytes(packet_bytes) ==
    LET header_bytes == SliceTo(packet_bytes, TCP_HEADER_LENGTH_BYTES)
        payload_and_options == SliceFrom(packet_bytes, TCP_HEADER_LENGTH_BYTES)
    IN  IF Len(header_bytes) # TCP_HEADER_LENGTH_BYTES THEN Raise("struct.error")
        ELSE LET data_offset_flags == RdU16(header_bytes, 13)
                 data_offset == Shr(data_offset_flags, 12)
                 flags == TcpControlBits_from_int(BitAnd(data_offset_flags, 511))
                 options_len == (data_offset - TCP_HEADER_LENGTH) * 4
                 options == TcpOptions_from_bytes(SliceTo(payload_and_options, options_len))
                 payload == SliceFrom(payload_and_options, options_len)
             IN  IF reserved_bits(data_offset_flags) # 0 THEN Raise("ValueError")
                 ELSE IF ~options.ok THEN options
                 ELSE TcpPacket_init(RdU16(header_bytes, 1), RdU16(header_bytes, 3),
                                     RdU32(header_bytes, 5), RdU32(header_bytes, 9), flags,
                                     RdU16(header_bytes, 15), RdU16(header_bytes, 19),
                                     options.val, payload)

\* __eq__ of the transport module: upper_layer is compared, underlying_packet is not.
TcpPacket_eq(self, other) ==
    /\ self.dest_port = other.dest_port
    /\ self.source_port = other.source_port
    /\ self.upper_layer = other.upper_layer
    /\ self.sequence_number = other.sequence_number
    /\ self.ack_number = other.ack_number
    /\ self.flags = other.flags
    /\ self.win_size = other.win_size
    /\ self.urg_pointer = other.urg_pointer
    /\ self.options = other.options
    /\ self.payload = other.payload

\* __eq__ of layers/tcp/tcp_packet.py: underlying_packet is compared.
TcpPacket_eq_layers_tcp(self, other) ==
    /\ self.dest_port = other.dest_port
    /\ self.source_port = other.source_port
    /\ self.payload = other.payload
    /\ self.sequence_number = other.sequence_number
    /\ self.ack_number = other.ack_number
    /\ self.flags = other.flags
    /\ self.win_size = other.win_size
    /\ self.urg_pointer = other.urg_pointer
    /\ self.options = other.options
    /\ self.underlying_packet = other.underlying_packet

-----------------------------------------------------------------------------
(* The object heap and the calls a user of the codec makes.                *)

\* A packet as to_bytes and __eq__ see it: its flags integer, option list and
\* payload bytes read through the object ids it holds.
View(p) == [p EXCEPT !.flags = flagsObj[p.flags],
                     !.options = optsObj[p.options],
                     !.payload = bufObj[p.payload].data]

Omitted == [given |-> FALSE]

Given(v) == [given |-> TRUE, val |-> v]

Call(op, args, res) == [op |-> op, args |-> args, res |-> res]

Init ==
    /\ packets = <<>>
    /\ flagsObj = <<TcpControlBits(FALSE, FALSE, FALSE, FALSE, FALSE, FALSE, FALSE, FALSE, FALSE)>>
    /\ optsObj = << <<>> >>
    /\ bufObj = <<[mutable |-> TRUE, data |-> <<>>]>>
    /\ ret = Call("none", <<>>, Ok(0))

\* TcpPacket(source_port, dest_port, ...): an argument that is given is a
\* fresh object of the caller, one that is omitted is the default object.
New(source_port, dest_port, sequence_number, ack_number, flags, win_size, urg_pointer, options, payload) ==
    LET flId == IF flags.given THEN Len(flagsObj) + 1 ELSE DefaultFlags
        opId == IF options.given THEN Len(optsObj) + 1 ELSE DefaultOptions
        plId == IF payload.given THEN Len(bufObj) + 1 ELSE DefaultPayload
        r == TcpPacket_init(source_port, dest_port, sequence_number, ack_number,
                            flId, win_size, urg_pointer, opId, plId)
    IN  /\ ret' = Call("new", <<source_port, dest_port>>,
                       IF r.ok THEN Ok(Len(packets) + 1) ELSE r)
        /\ IF r.ok
           THEN /\ packets' = Append(packets, r.val)
                /\ flagsObj' = IF flags.given THEN Append(flagsObj, flags.val) ELSE flagsObj
                /\ optsObj' = IF options.given THEN Append(optsObj, options.val) ELSE optsObj
                /\ bufObj' = IF payload.given
                             THEN Append(bufObj, [mutable |-> TRUE, data |-> payload.val])
                             ELSE bufObj
           ELSE UNCHANGED <<packets, flagsObj, optsObj, bufObj>>

\* packets[i].to_bytes()
ToBytes(i) ==
    /\ i \in DOMAIN packets
    /\ ret' = Call("to_bytes", <<i>>, to_bytes(View(packets[i])))
    /\ UNCHANGED <<packets, flagsObj, optsObj, bufObj>>

\* TcpPacket.from_bytes(packet_bytes): the packet built holds a new flags
\* object, a new options object and the payload slice, an immutable bytes.
FromBytes(packet_bytes) ==
    LET r == from_bytes(packet_bytes)
    IN  /\ ret' = Call("from_bytes", <<packet_bytes>>,
                       IF r.ok THEN Ok(Len(packets) + 1) ELSE r)
        /\ IF r.ok
           THEN /\ packets' = Append(packets, [r.val EXCEPT !.flags = Len(flagsObj) + 1,
                                                            !.options = Len(optsObj) + 1,
                                                            !.payload = Len(bufObj) + 1])
                /\ flagsObj' = Append(flagsObj, r.val.flags)
                /\ optsObj' = Append(optsObj, r.val.options)
                /\ bufObj' = Append(bufObj, [mutable |-> FALSE, data |-> r.val.payload])
           ELSE UNCHANGED <<packets, flagsObj, optsObj, bufObj>>

\* packets[i].underlying_packet = u
SetUnderlying(i, u) ==
    /\ i \in DOMAIN packets
    /\ packets' = [packets EXCEPT ![i].underlying_packet = u]
    /\ ret' = Call("set_underlying", <<i>>, Ok(0))
    /\ UNCHANGED <<flagsObj, optsObj, bufObj>>

\* packets[i].payload.append(b): the payload property returns the buffer itself.
AppendPayload(i, b) ==
    /\ i \in DOMAIN packets
    /\ bufObj[packets[i].payload].mutable
    /\ bufObj' = [bufObj EXCEPT ![packets[i].payload].data = Append(@, b)]
    /\ ret' = Call("payload.append", <<i, b>>, Ok(0))
    /\ UNCHANGED <<packets, flagsObj, optsObj>>

\* packets[i].flags.set_flag(mask, value): the flags property returns the object itself.
SetFlag(i, mask, value) ==
    /\ i \in DOMAIN packets
    /\ flagsObj' = [flagsObj EXCEPT ![packets[i].flags] = set_flag(@, mask, value)]
    /\ ret' = Call("flags.set_flag", <<i, mask>>, Ok(0))
    /\ UNCHANGED <<packets, optsObj, bufObj>>

\* packets[i] == packets[j], transport module
Eq(i, j) ==
    /\ i \in DOMAIN packets /\ j \in DOMAIN packets
    /\ ret' = Call("eq", <<i, j>>, Ok(TcpPacket_eq(View(packets[i]), View(packets[j]))))
    /\ UNCHANGED <<packets, flagsObj, optsObj, bufObj>>

\* packets[i] == packets[j], layers/tcp module
EqLayersTcp(i, j) ==
    /\ i \in DOMAIN packets /\ j \in DOMAIN packets
    /\ ret' = Call("eq_layers_tcp", <<i, j>>,
                   Ok(TcpPacket_eq_layers_tcp(View(packets[i]), View(packets[j]))))
    /\ UNCHANGED <<packets, flagsObj, optsObj, bufObj>>

\* packets[i].clone(): a deep copy, with objects of its own.
Clone(i) ==
    /\ i \in DOMAIN packets
    /\ packets' = Append(packets, [packets[i] EXCEPT !.flags = Len(flagsObj) + 1,
                                                     !.options = Len(optsObj) + 1,
                                                     !.payload = Len(bufObj) + 1])
    /\ flagsObj' = Append(flagsObj, flagsObj[packets[i].flags])
    /\ optsObj' = Append(optsObj, optsObj[packets[i].options])
    /\ bufObj' = Append(bufObj, bufObj[packets[i].payload])
    /\ ret' = Call("clone", <<i>>, Ok(Len(packets) + 1))

\* Utils.calc_checksum(byte_buffer)
CalcChecksum(byte_buffer) ==
    /\ ret' = Call("calc_checksum", <<byte_buffer>>, calc_checksum(byte_buffer))
    /\ UNCHANGED <<packets, flagsObj, optsObj, bufObj>>

-----------------------------------------------------------------------------
(* The checksum engine on its own: calc_checksum applied to byte buffers.  *)

MaxChecksumLen == 6

ChecksumByteVals == {0, 1, 255}

BytesUpTo(vals, n) == UNION {[1..k -> vals] : k \in 0..n}

NextChecksum == \E b \in BytesUpTo(ChecksumByteVals, MaxChecksumLen) : CalcChecksum(b)

SpecChecksum == Init /\ [][NextChecksum]_vars

\* The Internet checksum's sum, computed apart from the code: the 16-bit
\* big-endian words added up, the carry folded back until none remains.
RECURSIVE WordSum(_)
WordSum(b) ==
    IF Len(b) = 0 THEN 0
    ELSE b[1] * 256 + b[2] + WordSum(SubSeq(b, 3, Len(b)))

RECURSIVE FoldCarry(_)
FoldCarry(x) == IF x < 65536 THEN x ELSE FoldCarry((x % 65536) + (x \div 65536))

OnesComplementSum(b) == FoldCarry(WordSum(b))

\* C2: for every even-length buffer, calc_checksum returns 0xFFFF minus the
\* one's-complement sum of its 16-bit words (carry folded until none
\* remains), a value in 0..0xFFFF.
C2_ChecksumIsComplementOfFoldedSum ==
    (ret.op = "calc_checksum" /\ Len(ret.args[1]) % 2 = 0)
        => /\ ret.res.ok
           /\ ret.res.val \in 0..65535
           /\ ret.res.val = 65535 - OnesComplementSum(ret.args[1])

\* C3: for every odd-length buffer, calc_checksum does not fail and returns
\* the checksum of the buffer extended by one trailing zero byte.
C3_OddLengthIsZeroPadded ==
    (ret.op = "calc_checksum" /\ Len(ret.args[1]) % 2 = 1)
        => /\ ret.res.ok
           /\ ret.res.val = 65535 - OnesComplementSum(Append(ret.args[1], 0))

-----------------------------------------------------------------------------
(* The codec: a packet is built by the constructor or decoded from crafted *)
(* bytes, given an underlying packet, serialized, and the bytes it gave    *)
(* are decoded again.                                                      *)

MaxDecoded == 2

MaxTailLen == 4

\* 192.168.1.32 -> 35.160.240.60, protocol TCP
IpA == IpPacket(<<192, 168, 1, 32>>, <<35, 160, 240, 60>>)

\* 1407506493 = 0x53E4D83D, 3676709599 = 0xDB2622DF,
\* 3252488245 = 0xC1DD0835, 365238493 = 0x15C518DD
SeqA == W32(21476, 55357)

AckA == W32(56102, 8927)

OptionsA == <<NOP, NOP, Sized(TIMESTAMPS, <<W32(49629, 2101), W32(5573, 6365)>>)>>

SrcPortInputs == {0 - 1, 0, 59700, 65535, 65536}

DstPortInputs == {0 - 1, 0, 443, 65535, 65536}

SeqInputs == {W32(0, 0), SeqA}

AckInputs == {W32(65535, 65535), AckA}

FlagsA == TcpControlBits(FALSE, FALSE, FALSE, FALSE, TRUE, FALSE, FALSE, FALSE, FALSE)

FlagsInputs == {Omitted, Given(FlagsA), Given(TcpControlBits_from_int(511))}

WinInputs == {501, 65535}

UrgInputs == {0, 258}

OptionsInputs ==
    {Omitted, Given(OptionsA), Given(<<NOP>>),
     Given(<<Sized(TIMESTAMPS, <<W32(0, 1), W32(0, 2)>>)>>)}

PayloadInputs == {Given(<<>>), Given(<<7>>), Given(<<7, 200>>)}

CraftedHeader(data_offset_flags) ==
    U16(59700) \o U16(443) \o U32(SeqA) \o U32(AckA) \o U16(data_offset_flags)
    \o U16(501) \o U16(0) \o U16(0)

CraftedOffsets == {0, 4, 5, 6, 15}

CraftedFlags == {0, SYN + ACK}

CraftedInputs(offsets) ==
    {CraftedHeader(d * 4096 + r * 512 + f) \o tail :
        d \in offsets, r \in 0..7, f \in CraftedFlags,
        tail \in BytesUpTo({0, 1, 2}, MaxTailLen)}
    \cup {SubSeq(CraftedHeader(5 * 4096), 1, k) : k \in {0, 19}}

CodecNext(optionsInputs, offsets) ==
    \/ /\ packets = <<>> /\ ret.op = "none"
       /\ \E sp \in SrcPortInputs, dp \in DstPortInputs, sq \in SeqInputs, ak \in AckInputs,
             fl \in FlagsInputs, wn \in WinInputs, ug \in UrgInputs, op \in optionsInputs,
             pl \in PayloadInputs :
               New(sp, dp, sq, ak, fl, wn, ug, op, pl)
    \/ /\ packets = <<>> /\ ret.op = "none"
       /\ \E b \in CraftedInputs(offsets) : FromBytes(b)
    \/ \E i \in DOMAIN packets, u \in {IpA, OtherPacket} :
            packets[i].underlying_packet = NoPacket /\ SetUnderlying(i, u)
    \/ \E i \in DOMAIN packets : ToBytes(i)
    \/ ret.op = "to_bytes" /\ ret.res.ok /\ Len(packets) < MaxDecoded /\ FromBytes(ret.res.val)

NextCodec == CodecNext(OptionsInputs, CraftedOffsets)

SpecCodec == Init /\ [][NextCodec]_vars

\* The codec on packets whose option lists encode to whole 32-bit words, and
\* on crafted segments that carry no options.
AlignedOptionsInputs ==
    {Omitted, Given(OptionsA), Given(<<NOP, NOP, NOP, NOP>>),
     Given(<<Sized(TIMESTAMPS, <<W32(0, 1), W32(0, 2)>>), NOP, NOP>>)}

NextRoundTrip == CodecNext(AlignedOptionsInputs, {TCP_HEADER_LENGTH})

SpecRoundTrip == Init /\ [][NextRoundTrip]_vars

\* PACKET_DUMP_1 of the test:
\* e93401bb53e4d83d db2622df801001f5 915600000101080a c1dd083515c518dd
PACKET_DUMP_1 ==
    <<233, 52, 1, 187, 83, 228, 216, 61,
      219, 38, 34, 223, 128, 16, 1, 245,
      145, 86, 0, 0, 1, 1, 8, 10,
      193, 221, 8, 53, 21, 197, 24, 221>>

ScenarioPacket ==
    [source_port |-> 59700, dest_port |-> 443, sequence_number |-> SeqA,
     ack_number |-> AckA, flags |-> ACK, win_size |-> 501, urg_pointer |-> 0,
     options |-> OptionsA, payload |-> <<>>, underlying_packet |-> IpA,
     upper_layer |-> NoPacket]

ValidPacket(P) ==
    /\ P.source_port \in 0..65535 /\ P.dest_port \in 0..65535
    /\ FitsI(P.sequence_number) /\ FitsI(P.ack_number)
    /\ P.win_size \in 0..65535 /\ P.urg_pointer \in 0..65535

SameFields(P, Q) ==
    /\ Q.source_port = P.source_port /\ Q.dest_port = P.dest_port
    /\ Q.sequence_number = P.sequence_number /\ Q.ack_number = P.ack_number
    /\ Q.flags = P.flags /\ Q.win_size = P.win_size /\ Q.urg_pointer = P.urg_pointer
    /\ Q.options = P.options /\ Q.payload = P.payload

HasIp(p) == p.underlying_packet.kind = "IpPacket"

\* C1: round trip. A valid packet with an IP underlying packet serializes, and
\* decoding the bytes it gave yields a packet with the same source port,
\* destination port, sequence number, ack number, flags, window size, urgent
\* pointer, options and payload.
C1_RoundTrip ==
    /\ (ret.op = "to_bytes" /\ ValidPacket(packets[ret.args[1]]) /\ HasIp(packets[ret.args[1]]))
            => ret.res.ok
    /\ ret.op = "from_bytes"
            => \A i \in DOMAIN packets :
                  (ValidPacket(packets[i]) /\ HasIp(packets[i])
                   /\ to_bytes(View(packets[i])) = Ok(ret.args[1]))
                      => /\ ret.res.ok
                         /\ SameFields(View(packets[i]), View(packets[ret.res.val]))

\* C4 as stated: to_bytes of the scenario packet returns a 34-byte sequence
\* that is PACKET_DUMP_1.
C4_ScenarioIs34Bytes ==
    (ret.op = "to_bytes" /\ View(packets[ret.args[1]]) = ScenarioPacket)
        => /\ ret.res.ok
           /\ Len(ret.res.val) = 34
           /\ ret.res.val = PACKET_DUMP_1

\* C4, amended: to_bytes of the scenario packet returns exactly the 32 bytes
\* of PACKET_DUMP_1, with the checksum 0x9156 at offsets 16-17.
C4_ScenarioBytes ==
    (ret.op = "to_bytes" /\ View(packets[ret.args[1]]) = ScenarioPacket)
        => /\ ret.res.ok
           /\ Len(ret.res.val) = 32
           /\ ret.res.val = PACKET_DUMP_1
           /\ ret.res.val[17] = 145 /\ ret.res.val[18] = 86

C4_Witness ==
    /\ ret.op = "to_bytes"
    /\ View(packets[ret.args[1]]) = ScenarioPacket
    /\ ret.res.ok

\* Bits 9, 10 and 11 of the 16-bit field at offsets 12-13 are bits 1, 2 and 3
\* of the byte at offset 12.
ReservedBitsSet(b) == (b[13] \div 2) % 8 # 0

\* C5: from_bytes of an input of at least 20 bytes with any of bits 9-11 of
\* the offset/flags field set raises an error and returns no packet, whatever
\* the data offset, the flags and the other bytes.
C5_ReservedBitsRejected ==
    (ret.op = "from_bytes" /\ Len(ret.args[1]) >= 20 /\ ReservedBitsSet(ret.args[1]))
        => /\ ~ret.res.ok
           /\ ret.res.err = "ValueError"

\* An input with only bit 11 set, a data offset of 6 and well-formed options.
C5_Witness ==
    /\ ret.op = "from_bytes"
    /\ Len(ret.args[1]) = 24
    /\ ret.args[1][13] = 6 * 16 + 8
    /\ ~ret.res.ok

\* C6: the constructor raises for a source or destination port outside
\* 0..65535 and succeeds otherwise (0 and 65535 included); no packet object
\* holds an out-of-range port and to_bytes never fails packing a port.
C6_PortsCheckedAtConstruction ==
    /\ ret.op = "new"
          => /\ ret.res.ok <=> (ret.args[1] \in 0..65535 /\ ret.args[2] \in 0..65535)
             /\ ~ret.res.ok => ret.res.err = "ValueError"
    /\ \A i \in DOMAIN packets :
          packets[i].source_port \in 0..65535 /\ packets[i].dest_port \in 0..65535
    /\ ret.op = "to_bytes" => (ret.res.ok \/ ret.res.err # "struct.error")

C6_Witness ==
    /\ ret.op = "new"
    /\ ret.args = <<65535, 65536>>
    /\ ~ret.res.ok
    /\ packets = <<>>

Decoded(p) == ~bufObj[p.payload].mutable

\* C8: to_bytes returns bytes only when the underlying packet is an IP packet
\* and fails otherwise; on a packet returned by from_bytes it fails until an
\* IP underlying packet is attached and succeeds afterwards.
C8_ToBytesNeedsIpUnderlying ==
    ret.op = "to_bytes"
        => LET p == packets[ret.args[1]]
           IN  /\ ret.res.ok => HasIp(p)
               /\ (Decoded(p) /\ ~HasIp(p)) => ~ret.res.ok
               /\ (Decoded(p) /\ HasIp(p)) => ret.res.ok

-----------------------------------------------------------------------------
(* Packets as objects: several packets built by separate constructor calls *)
(* or cloned, their payload buffers and flags changed through the objects  *)
(* the properties return, their underlying packets set, and the packets    *)
(* serialized and compared.  The changes are made through the first packet *)
(* and seen through every packet.                                          *)

MaxPackets == 2

MaxPayloadLen == 2

\* 10.0.0.1 -> 10.0.0.2, protocol TCP
IpB == IpPacket(<<10, 0, 0, 1>>, <<10, 0, 0, 2>>)

Next ==
    \/ /\ Len(packets) < MaxPackets
       /\ \/ New(59700, 443, W32(0, 0), W32(0, 0), Omitted, 65535, 0, Omitted, Omitted)
          \/ New(59700, 443, W32(0, 0), W32(0, 0), Given(FlagsA), 65535, 0, Omitted,
                 Given(<<>>))
    \/ /\ Len(packets) < MaxPackets
       /\ \E i \in DOMAIN packets : Clone(i)
    \/ \E i \in DOMAIN packets, u \in {IpA, IpB} : SetUnderlying(i, u)
    \/ /\ packets # <<>>
       /\ Len(bufObj[packets[1].payload].data) < MaxPayloadLen
       /\ AppendPayload(1, 7)
    \/ /\ packets # <<>>
       /\ \E v \in BOOLEAN : SetFlag(1, SYN, v)
    \/ \E i \in DOMAIN packets : ToBytes(i)
    \/ \E i \in DOMAIN packets : \E j \in DOMAIN packets \ {i} : Eq(i, j)
    \/ \E i \in DOMAIN packets : \E j \in DOMAIN packets \ {i} : EqLayersTcp(i, j)

Spec == Init /\ [][Next]_vars

\* C9: two packets compare equal exactly when their source port, destination
\* port, sequence number, ack number, flags, window size, urgent pointer,
\* options, payload and underlying packet are all equal.
C9_EqualityIsStructural ==
    ret.op = "eq"
        => LET P == View(packets[ret.args[1]])
               Q == View(packets[ret.args[2]])
           IN  ret.res.val <=> (SameFields(P, Q) /\ P.underlying_packet = Q.underlying_packet)

\* C10: a change made to one packet's payload buffer or flags changes no
\* field and no to_bytes output of any other packet.
C10_ExclusiveOwnership ==
    [][\A i \in DOMAIN packets, j \in DOMAIN packets :
          (i # j /\ ret'.op \in {"payload.append", "flags.set_flag"} /\ ret'.args[1] = i)
              => /\ View(packets[j])' = View(packets[j])
                 /\ to_bytes(View(packets[j]))' = to_bytes(View(packets[j]))]_vars

-----------------------------------------------------------------------------
(* TcpControlBits objects on their own: built by the constructor or by     *)
(* from_int, read through the accessors, __str__ and __eq__, and written   *)
(* through set_flag, the method the class inherits from BitFlags and that  *)
(* its own constructor calls.                                              *)

MaxFlagObjs == 3

FromIntInputs == {511, 512 + ACK + SYN}

\* TcpControlBits(ack=ack, syn=syn)
NewFlags(ack, syn) ==
    /\ flagsObj' = Append(flagsObj, TcpControlBits(FALSE, FALSE, FALSE, FALSE, ack, FALSE,
                                                   FALSE, syn, FALSE))
    /\ ret' = Call("TcpControlBits", <<ack, syn>>, Ok(Len(flagsObj) + 1))
    /\ UNCHANGED <<packets, optsObj, bufObj>>

\* TcpControlBits.from_int(bits)
FlagsFromInt(bits) ==
    /\ flagsObj' = Append(flagsObj, TcpControlBits_from_int(bits))
    /\ ret' = Call("from_int", <<bits>>, Ok(Len(flagsObj) + 1))
    /\ UNCHANGED <<packets, optsObj, bufObj>>

\* f.set_flag(mask, value) on the flags object k
FlagsSetFlag(k, mask, value) ==
    /\ k \in DOMAIN flagsObj
    /\ flagsObj' = [flagsObj EXCEPT ![k] = set_flag(@, mask, value)]
    /\ ret' = Call("set_flag", <<k, mask, value>>, Ok(0))
    /\ UNCHANGED <<packets, optsObj, bufObj>>

\* str(f)
FlagsStr(k) ==
    /\ k \in DOMAIN flagsObj
    /\ ret' = Call("str", <<k>>, Ok(TcpControlBits_str(flagsObj[k])))
    /\ UNCHANGED <<packets, flagsObj, optsObj, bufObj>>

\* f == g
FlagsEq(k, l) ==
    /\ k \in DOMAIN flagsObj /\ l \in DOMAIN flagsObj
    /\ ret' = Call("flags_eq", <<k, l>>, Ok(TcpControlBits_eq(flagsObj[k], flagsObj[l])))
    /\ UNCHANGED <<packets, flagsObj, optsObj, bufObj>>

NextFlags ==
    \/ /\ Len(flagsObj) < MaxFlagObjs
       /\ \E ack \in BOOLEAN, syn \in BOOLEAN : NewFlags(ack, syn)
    \/ /\ Len(flagsObj) < MaxFlagObjs
       /\ \E bits \in FromIntInputs : FlagsFromInt(bits)
    \/ \E k \in DOMAIN flagsObj, v \in BOOLEAN : FlagsSetFlag(k, SYN, v)
    \/ \E k \in DOMAIN flagsObj : FlagsStr(k)
    \/ \E k \in DOMAIN flagsObj : \E l \in DOMAIN flagsObj \ {k} : FlagsEq(k, l)

SpecFlags == Init /\ [][NextFlags]_vars

\* C11: a TcpControlBits object is immutable after construction: no operation
\* of its public interface changes its packed integer, its 9 accessors, its
\* string form or its equality with any other object.
C11_FlagsImmutable ==
    [][\A k \in DOMAIN flagsObj :
          /\ flagsObj'[k] = flagsObj[k]
          /\ Accessors(flagsObj'[k]) = Accessors(flagsObj[k])
          /\ TcpControlBits_str(flagsObj'[k]) = TcpControlBits_str(flagsObj[k])
          /\ \A l \in DOMAIN flagsObj :
                TcpControlBits_eq(flagsObj'[k], flagsObj'[l])
                    = TcpControlBits_eq(flagsObj[k], flagsObj[l])]_vars

-----------------------------------------------------------------------------
(* Properties of the offset/flags field, on the codec (SpecCodec).         *)

\* The data offset an input carries: the top 4 bits of the byte at offset 12.
DataOffsetOf(b) == b[13] \div 16

\* C12: from_bytes of an input of at least 20 bytes whose data offset is
\* less than 5 raises an error and returns no packet, for every data offset
\* 0..4 and every length of the bytes after the header.
C12_ShortDataOffsetRejected ==
    (ret.op = "from_bytes" /\ Len(ret.args[1]) >= TCP_HEADER_LENGTH_BYTES
        /\ DataOffsetOf(ret.args[1]) < TCP_HEADER_LENGTH)
        => ~ret.res.ok

\* An option list of n NoOp options: n encoded bytes.
Nops(n) == [k \in 1..n |-> NOP]

\* Option lists up to and past the longest a 4-bit data offset can describe
\* (15 words of header, 10 of them options).
WideOptionsInputs ==
    {Omitted, Given(OptionsA), Given(Nops(4 * (15 - TCP_HEADER_LENGTH))),
     Given(Nops(4 * (16 - TCP_HEADER_LENGTH)))}

NextOffsetFlags == CodecNext(WideOptionsInputs, {TCP_HEADER_LENGTH})

SpecOffsetFlags == Init /\ [][NextOffsetFlags]_vars

\* C13: for every packet, to_bytes packs data_offset << 12 | flags as a
\* 16-bit field without failing, and in the bytes it returns the top 4 bits
\* of that field (offsets 12-13) are 5 + the encoded options length / 4, bits
\* 9-11 are zero and the low 9 bits are the flags' packed integer.
C13_OffsetFlagsField ==
    ret.op = "to_bytes"
        => LET p == View(packets[ret.args[1]])
               data_offset == TCP_HEADER_LENGTH + Len(TcpOptions_to_bytes(p.options)) \div 4
           IN  /\ ret.res.ok \/ ret.res.err # "struct.error"
               /\ ret.res.ok
                    => /\ DataOffsetOf(ret.res.val) = data_offset
                       /\ ~ReservedBitsSet(ret.res.val)
                       /\ (ret.res.val[13] % 2) * 256 + ret.res.val[14] = p.flags

-----------------------------------------------------------------------------
(* The checksum over a packet's life (Spec): to_bytes calls interleaved    *)
(* with changes of the underlying packet, the payload buffer and the flags.*)

\* The checksum of the packet as it is now, put together from its parts: the
\* pseudo header of its underlying packet, its header with a zero checksum
\* field, its encoded options and its payload.
ChecksumNow(p) ==
    LET options_bytes == TcpOptions_to_bytes(p.options)
        data_offset == TCP_HEADER_LENGTH + Len(options_bytes) \div 4
        segment_len == data_offset * 4 + Len(p.payload)
        pseudo == p.underlying_packet.source_addr_raw \o p.underlying_packet.dest_addr_raw
                  \o <<0, p.underlying_packet.protocol>> \o U16(segment_len)
        header == U16(p.source_port) \o U16(p.dest_port) \o U32(p.sequence_number)
                  \o U32(p.ack_number) \o U16(data_offset * 4096 + p.flags)
                  \o U16(p.win_size) \o <<0, 0>> \o U16(p.urg_pointer)
    IN  calc_checksum(pseudo \o header \o options_bytes \o p.payload)

\* Bytes 16-17 of every to_bytes output are the checksum of the packet as it
\* is at that call.
ChecksumIsFresh ==
    (ret.op = "to_bytes" /\ ret.res.ok)
        => LET now == ChecksumNow(View(packets[ret.args[1]]))
           IN  now.ok /\ SubSeq(ret.res.val, 17, 18) = U16(now.val)

\* to_bytes changes no object, and called again with nothing changed in
\* between it returns the same result.
ToBytesIsPure ==
    ret'.op = "to_bytes"
        => /\ UNCHANGED <<packets, flagsObj, optsObj, bufObj>>
           /\ (ret.op = "to_bytes" /\ ret.args = ret'.args) => ret'.res = ret.res

\* C14: the checksum is never cached: in any sequence of to_bytes calls
\* interleaved with changes of the underlying packet or the payload buffer,
\* bytes 16-17 of each output are the checksum of pseudo header, header with
\* zero checksum field, options and payload as they are at that call, and
\* to_bytes changes no field of the packet (two calls in a row return the
\* same bytes).
C14_ChecksumNeverCached == [](ChecksumIsFresh) /\ [][ToBytesIsPure]_vars

\* to_bytes succeeds on the first packet after its payload buffer was
\* appended to twice and its underlying packet set to the second address pair.
C14_Witness ==
    /\ ret.op = "to_bytes" /\ ret.args = <<1>> /\ ret.res.ok
    /\ bufObj[packets[1].payload].data = <<7, 7>>
    /\ packets[1].underlying_packet = IpB
    /\ ret.res.val[17] * 256 + ret.res.val[18] # ChecksumNow([View(packets[1]) EXCEPT
                                                      !.payload = <<>>, !.underlying_packet = IpA]).val

====
